---- MODULE Spec2Model ----
(***************************************************************************)
(* The POST /redact handler of src/src/index.js.                           *)
(*                                                                         *)
(* A text is a sequence of one-character strings.  The five PATTERNS are   *)
(* regular-expression syntax trees, matched by a backtracking matcher that *)
(* follows the ECMAScript priority order (leftmost start, alternatives     *)
(* left to right, greedy quantifiers longest first, lazy shortest first).  *)
(***************************************************************************)
EXTENDS Integers, Sequences, FiniteSets, TLC

\* ---------------------------------------------------------------------------
\* Characters
\* ---------------------------------------------------------------------------
Digit == {"0", "1", "2", "3", "4", "5", "6", "7", "8", "9"}

Upper == {"A", "B", "C", "D", "E", "F", "G", "H", "I", "J", "K", "L", "M",
          "N", "O", "P", "Q", "R", "S", "T", "U", "V", "W", "X", "Y", "Z"}

Lower == {"a", "b", "c", "d", "e", "f", "g", "h", "i", "j", "k", "l", "m",
          "n", "o", "p", "q", "r", "s", "t", "u", "v", "w", "x", "y", "z"}

\* \w
WordChar == Digit \cup Upper \cup Lower \cup {"_"}

\* \s (the white space of the modelled alphabet)
Whitespace == {" ", "\t", "\n"}

\* parseInt(c, 10) of one digit character
DigitVal(c) ==
  CASE c = "0" -> 0 [] c = "1" -> 1 [] c = "2" -> 2 [] c = "3" -> 3
    [] c = "4" -> 4 [] c = "5" -> 5 [] c = "6" -> 6 [] c = "7" -> 7
    [] c = "8" -> 8 [] c = "9" -> 9

\* ---------------------------------------------------------------------------
\* Regular-expression syntax trees
\* ---------------------------------------------------------------------------
Chr(S) == [t |-> "chr", set |-> S]
Lit(c) == Chr({c})
Cat(xs) == [t |-> "cat", xs |-> xs]
Alt(xs) == [t |-> "alt", xs |-> xs]
\* x{min,max}, greedy or lazy
Rep(x, min, max, greedy) ==
  [t |-> "rep", x |-> x, min |-> min, max |-> max, greedy |-> greedy]
Opt(x) == Rep(x, 0, 1, TRUE)
\* \b
WB == [t |-> "wb"]
\* (?!x)
NotAhead(x) == [t |-> "nla", x |-> x]

\* the largest repetition count an unbounded quantifier (+, *, {2,}) can use
\* on a text of length n
Unbounded(n) == n + 1

\* x+ , x* on a text s are x{1,Len(s)+1}, x{0,Len(s)+1}
Plus(x) == [t |-> "rep", x |-> x, min |-> 1, max |-> -1, greedy |-> TRUE]
LazyStar(x) == [t |-> "rep", x |-> x, min |-> 0, max |-> -1, greedy |-> FALSE]
AtLeast(x, n) == [t |-> "rep", x |-> x, min |-> n, max |-> -1, greedy |-> TRUE]

\* ---------------------------------------------------------------------------
\* The backtracking matcher
\* ---------------------------------------------------------------------------
IsWordAt(s, i) == i >= 1 /\ i <= Len(s) /\ s[i] \in WordChar

\* \b holds between s[i] and s[i+1] (i characters lie to the left)
IsWordBoundary(s, i) == IsWordAt(s, i) # IsWordAt(s, i + 1)

\* the number of characters of s from offset i on that lie in S, at most max
RunLength(S, s, i, max) ==
  LET last == IF Len(s) < i + max THEN Len(s) ELSE i + max
      stops == {j \in (i + 1)..last : s[j] \notin S}
  IN  IF stops = {} THEN last - i
      ELSE (CHOOSE j \in stops : \A k \in stops : j <= k) - 1 - i

\* A quantified character class r.x{min,max} at offset i: a greedy one is
\* tried with the longest run of characters first and gives them back one
\* by one, a lazy one is tried with the shortest first.
EndsRun(r, s, i) ==
  LET max == IF r.max < 0 THEN Unbounded(Len(s)) ELSE r.max
      m == RunLength(r.x.set, s, i, max)
  IN  IF m < r.min THEN <<>>
      ELSE IF r.greedy THEN [k \in 1..(m - r.min + 1) |-> i + m - k + 1]
      ELSE [k \in 1..(m - r.min + 1) |-> i + r.min + k - 1]

RECURSIVE Ends(_, _, _)
RECURSIVE EndsCat(_, _, _, _, _)
RECURSIVE EndsAlt(_, _, _, _)
RECURSIVE EndsRep(_, _, _, _)
RECURSIVE Continue(_, _, _, _, _, _, _)
RECURSIVE ContinueRep(_, _, _, _, _, _)
RECURSIVE Times(_, _, _, _)
RECURSIVE ContinueTimes(_, _, _, _, _, _)

\* The offsets at which a match of r that starts at offset i can end, in
\* the order in which the backtracking matcher tries them.
Ends(r, s, i) ==
  CASE r.t = "chr" ->
         IF i < Len(s) /\ s[i + 1] \in r.set THEN <<i + 1>> ELSE <<>>
    [] r.t = "wb" -> IF IsWordBoundary(s, i) THEN <<i>> ELSE <<>>
    [] r.t = "nla" -> IF Ends(r.x, s, i) = <<>> THEN <<i>> ELSE <<>>
    [] r.t = "cat" -> EndsCat(r.xs, 1, Len(r.xs), s, i)
    [] r.t = "alt" -> EndsAlt(r.xs, 1, s, i)
    [] r.t = "rep" ->
         IF r.x.t = "chr" THEN EndsRun(r, s, i)
         ELSE LET js == Times(r.x, r.min, s, i)
              IN  IF js = <<>> THEN <<>>
                  ELSE IF Len(js) = 1 THEN EndsRep(r, 0, s, js[1])
                  ELSE ContinueRep(js, 1, Len(js), r, 0, s)

\* xs[lo], ..., xs[hi] one after the other from offset i: the first half of
\* them, then for each end of those the second half
EndsCat(xs, lo, hi, s, i) ==
  IF lo > hi THEN <<i>>
  ELSE IF lo = hi THEN Ends(xs[lo], s, i)
  ELSE LET mid == (lo + hi) \div 2
           js == EndsCat(xs, lo, mid, s, i)
       IN  IF js = <<>> THEN <<>>
           ELSE IF Len(js) = 1 THEN EndsCat(xs, mid + 1, hi, s, js[1])
           ELSE Continue(js, 1, Len(js), xs, mid + 1, hi, s)

\* for each of the ends js[a], ..., js[b], in this order, xs[lo], ..., xs[hi]
Continue(js, a, b, xs, lo, hi, s) ==
  IF a = b THEN EndsCat(xs, lo, hi, s, js[a])
  ELSE LET mid == (a + b) \div 2
       IN  Continue(js, a, mid, xs, lo, hi, s)
             \o Continue(js, mid + 1, b, xs, lo, hi, s)

EndsAlt(xs, k, s, i) ==
  IF k > Len(xs) THEN <<>>
  ELSE Ends(xs[k], s, i) \o EndsAlt(xs, k + 1, s, i)

\* exactly n matches of x one after the other from offset i: the first
\* half of them, then for each end of those the second half
Times(x, n, s, i) ==
  IF n = 0 THEN <<i>>
  ELSE IF n = 1 THEN Ends(x, s, i)
  ELSE LET js == Times(x, n \div 2, s, i)
       IN  IF js = <<>> THEN <<>>
           ELSE IF Len(js) = 1 THEN Times(x, n - n \div 2, s, js[1])
           ELSE ContinueTimes(js, 1, Len(js), x, n - n \div 2, s)

ContinueTimes(js, lo, hi, x, n, s) ==
  IF lo = hi THEN Times(x, n, s, js[lo])
  ELSE LET mid == (lo + hi) \div 2
       IN  ContinueTimes(js, lo, mid, x, n, s)
             \o ContinueTimes(js, mid + 1, hi, x, n, s)

\* r.x repeated, the r.min mandatory iterations and n optional ones done,
\* now at offset i: a greedy quantifier tries one more iteration before it
\* stops, a lazy one stops before it tries one more
EndsRep(r, n, s, i) ==
  LET js == IF r.max < 0 \/ r.min + n < r.max THEN Ends(r.x, s, i) ELSE <<>>
      more == IF js = <<>> THEN <<>>
              ELSE IF Len(js) = 1 THEN EndsRep(r, n + 1, s, js[1])
              ELSE ContinueRep(js, 1, Len(js), r, n + 1, s)
  IN  IF r.greedy THEN more \o <<i>> ELSE <<i>> \o more

\* for each end js[lo], ..., js[hi] of the last iteration, in this order,
\* the further iterations
ContinueRep(js, lo, hi, r, n, s) ==
  IF lo = hi THEN EndsRep(r, n, s, js[lo])
  ELSE LET mid == (lo + hi) \div 2
       IN  ContinueRep(js, lo, mid, r, n, s)
             \o ContinueRep(js, mid + 1, hi, r, n, s)

\* RegExpBuiltinExec without the lastIndex bookkeeping: the first match of r
\* in s starting at offset from or later; <<start, end>>, or <<>> if none.
Exec(r, s, from) ==
  LET starts == {i \in from..Len(s) : Ends(r, s, i) # <<>>}
  IN  IF starts = {} THEN <<>>
      ELSE LET a == CHOOSE i \in starts : \A j \in starts : i <= j
           IN  <<a, Ends(r, s, a)[1]>>

\* ---------------------------------------------------------------------------
\* PATTERNS (src/src/index.js:34-51)
\* ---------------------------------------------------------------------------
Alnum == Digit \cup Upper \cup Lower

D == Chr(Digit)

\* \d{1,3}
Octet_anyDigits == Rep(D, 1, 3, TRUE)

\* (?:25[0-5]|2[0-4][0-9]|[01]?[0-9][0-9]?)
Octet ==
  Alt(<< Cat(<<Lit("2"), Lit("5"), Chr({"0", "1", "2", "3", "4", "5"})>>),
         Cat(<<Lit("2"), Chr({"0", "1", "2", "3", "4"}), D>>),
         Cat(<<Opt(Chr({"0", "1"})), D, Opt(D)>>) >>)

\* /\b(?:(?:25[0-5]|2[0-4][0-9]|[01]?[0-9][0-9]?)\.){3}
\*    (?:25[0-5]|2[0-4][0-9]|[01]?[0-9][0-9]?)\b/g
IPV4 == Cat(<<WB, Rep(Cat(<<Octet, Lit(".")>>), 3, 3, TRUE), Octet, WB>>)

\* /\b[A-Za-z0-9._%+-]+@[A-Za-z0-9.-]+\.[A-Za-z]{2,}\b/g
EMAIL ==
  Cat(<< WB,
         Plus(Chr(Alnum \cup {".", "_", "%", "+", "-"})),
         Lit("@"),
         Plus(Chr(Alnum \cup {".", "-"})),
         Lit("."),
         AtLeast(Chr(Upper \cup Lower), 2),
         WB >>)

\* /\b(?!000|666|9\d{2})-?\d{3}-(?!00)-?\d{2}-(?!0000)-?\d{4}\b/g
SSN_US ==
  Cat(<< WB,
         NotAhead(Alt(<< Cat(<<Lit("0"), Lit("0"), Lit("0")>>),
                         Cat(<<Lit("6"), Lit("6"), Lit("6")>>),
                         Cat(<<Lit("9"), Rep(D, 2, 2, TRUE)>>) >>)),
         Opt(Lit("-")), Rep(D, 3, 3, TRUE),
         Lit("-"),
         NotAhead(Cat(<<Lit("0"), Lit("0")>>)),
         Opt(Lit("-")), Rep(D, 2, 2, TRUE),
         Lit("-"),
         NotAhead(Cat(<<Lit("0"), Lit("0"), Lit("0"), Lit("0")>>)),
         Opt(Lit("-")), Rep(D, 4, 4, TRUE),
         WB >>)

\* /\b(?:\d[ -]*?){13,19}\b/g
CREDIT_CARD ==
  Cat(<<WB, Rep(Cat(<<D, LazyStar(Chr({" ", "-"}))>>), 13, 19, TRUE), WB>>)

\* [-.\s]
PhoneSep == Chr({"-", "."} \cup Whitespace)

\* /\b(?:\+?1[-.\s]?)?\(?([0-9]{3})\)?[-.\s]?([0-9]{3})[-.\s]?([0-9]{4})\b/g
PHONE_US ==
  Cat(<< WB,
         Opt(Cat(<<Opt(Lit("+")), Lit("1"), Opt(PhoneSep)>>)),
         Opt(Lit("(")), Rep(D, 3, 3, TRUE), Opt(Lit(")")),
         Opt(PhoneSep), Rep(D, 3, 3, TRUE),
         Opt(PhoneSep), Rep(D, 4, 4, TRUE),
         WB >>)

PatternNames == {"IPV4", "EMAIL", "SSN_US", "CREDIT_CARD", "PHONE_US"}

PATTERNS ==
  [IPV4 |-> IPV4, EMAIL |-> EMAIL, SSN_US |-> SSN_US,
   CREDIT_CARD |-> CREDIT_CARD, PHONE_US |-> PHONE_US]

\* ---------------------------------------------------------------------------
\* String.prototype.replace(pattern, callback) with a global pattern
\* ---------------------------------------------------------------------------
\* s[a+1 .. b]
Slice(s, a, b) == SubSeq(s, a + 1, b)

\* RegExp.prototype[Symbol.replace] starts a global pattern at lastIndex 0
LastIndexOnReplace(li) == 0

\* RegExpBuiltinExec sets lastIndex to 0 when no further match is found
LastIndexOnFailure_keep(li) == li

LastIndexOnFailure(li) == 0

\* The loop of RegExpExec calls: every match from offset li on, left to
\* right and non-overlapping, and the lastIndex the pattern is left with.
\* (No pattern of PATTERNS matches the empty string, so each match moves on.)
RECURSIVE ExecLoop(_, _, _)
ExecLoop(r, s, li) ==
  LET m == Exec(r, s, li)
  IN  IF m = <<>>
        THEN [matches |-> <<>>, lastIndex |-> LastIndexOnFailure(li)]
        ELSE LET rest == ExecLoop(r, s, m[2])
             IN  [matches |-> <<m>> \o rest.matches,
                  lastIndex |-> rest.lastIndex]

\* ---------------------------------------------------------------------------
\* JavaScript values of the request
\* ---------------------------------------------------------------------------
MAX_INPUT_LENGTH == 1048576

\* a mask that keeps the shape of an address
PLACEHOLDER_quad == <<"0", ".", "0", ".", "0", ".", "0">>

\* "[REDACTED]", the placeholder of all five calls (lines 152-161)
PLACEHOLDER == <<"[", "R", "E", "D", "A", "C", "T", "E", "D", "]">>

\* A string is its characters head followed by pad filler characters "#".
\* "#" is not a word character and occurs in no pattern, so it behaves for
\* every pattern like the end of the text: the matches of head ++ "#"^pad
\* are the matches of head, and the filler is copied to the result.
Str(head, pad) == [type |-> "string", head |-> head, pad |-> pad]
Undefined == [type |-> "undefined"]
Num(n) == [type |-> "number", num |-> n]
Arr == [type |-> "object"]

\* text.length
Length(v) == Len(v.head) + v.pad

\* !text
Falsy(v) ==
  \/ v.type = "undefined"
  \/ v.type = "number" /\ v.num = 0
  \/ v.type = "string" /\ Length(v) = 0

\* what c.req.json() yields: a parse failure, null, or an object whose text
\* property is v (Undefined when the object has no text property)
Malformed == [json |-> "malformed"]
JsonNull == [json |-> "null"]
Obj(v) == [json |-> "object", text |-> v]

\* ---------------------------------------------------------------------------
\* isValidCreditCard (src/src/index.js:127-148)
\* ---------------------------------------------------------------------------
\* number.replace(/[\s-]/g, "")
StripSeparators(number) ==
  SelectSeq(number, LAMBDA c : c \notin Whitespace \cup {"-"})

\* digit *= 2; if (digit > 9) digit -= 9  when isEven
Doubled(digit, isEven) ==
  IF isEven THEN (IF 2 * digit > 9 THEN 2 * digit - 9 ELSE 2 * digit)
  ELSE digit

\* what one pass of the loop adds to sum, given the adjusted digit
LuhnAddend(digit) == 2

\* isEven in the pass of the loop for digits[i]: false in the first pass,
\* which is the one for the last digit, and negated at the end of each pass
isEven(digits, i) == (Len(digits) - i) % 2 = 1

\* what the passes of the loop for digits[lo], ..., digits[hi] add to sum
RECURSIVE LuhnLoop(_, _, _)
LuhnLoop(digits, lo, hi) ==
  IF lo > hi THEN 0
  ELSE IF lo = hi
    THEN LuhnAddend(Doubled(DigitVal(digits[lo]), isEven(digits, lo)))
  ELSE LET mid == (lo + hi) \div 2
       IN  LuhnLoop(digits, mid + 1, hi) + LuhnLoop(digits, lo, mid)

isValidCreditCard(number) ==
  LET digits == StripSeparators(number)
  IN  LuhnLoop(digits, 1, Len(digits)) % 10 = 0

\* ---------------------------------------------------------------------------
\* applyRedaction (src/src/index.js:115-124)
\* ---------------------------------------------------------------------------
\* the replace callback: what the match becomes and whether count++ ran
Callback_countFirst(match, validator) ==
  IF validator /\ ~isValidCreditCard(match)
    THEN [out |-> match, counted |-> 1]
    ELSE [out |-> PLACEHOLDER, counted |-> 1]

Callback(match, validator) ==
  IF validator /\ ~isValidCreditCard(match)
    THEN [out |-> match, counted |-> 0]
    ELSE [out |-> PLACEHOLDER, counted |-> 1]

\* the result string of replace: the text between the matches and what the
\* callback returns for each match; count is the closure's counter
RECURSIVE Substitute(_, _, _, _, _)
Substitute(s, matches, k, pos, validator) ==
  IF k > Len(matches) THEN [text |-> Slice(s, pos, Len(s)), count |-> 0]
  ELSE LET m == matches[k]
           cb == Callback(Slice(s, m[1], m[2]), validator)
           rest == Substitute(s, matches, k + 1, m[2], validator)
       IN  [text |-> Slice(s, pos, m[1]) \o cb.out \o rest.text,
            count |-> cb.counted + rest.count]

\* redactionMap[type] || 0
MapGet(map, type) == IF type \in DOMAIN map THEN map[type] ELSE 0

\* the five calls of applyRedaction, in source order (lines 152-161)
Calls_cardFirst ==
  << [pattern |-> "CREDIT_CARD", type |-> "credit_card", validator |-> TRUE],
     [pattern |-> "IPV4", type |-> "ipv4", validator |-> FALSE],
     [pattern |-> "EMAIL", type |-> "email", validator |-> FALSE],
     [pattern |-> "SSN_US", type |-> "ssn_us", validator |-> FALSE],
     [pattern |-> "PHONE_US", type |-> "phone_us", validator |-> FALSE] >>

Calls ==
  << [pattern |-> "IPV4", type |-> "ipv4", validator |-> FALSE],
     [pattern |-> "EMAIL", type |-> "email", validator |-> FALSE],
     [pattern |-> "SSN_US", type |-> "ssn_us", validator |-> FALSE],
     [pattern |-> "PHONE_US", type |-> "phone_us", validator |-> FALSE],
     [pattern |-> "CREDIT_CARD", type |-> "credit_card", validator |-> TRUE] >>

\* The closure state of one run of the handler: redactedText,
\* totalRedactions, redactionMap.
NewRun(text) ==
  [redactedText |-> text, totalRedactions |-> 0, redactionMap |-> <<>>]

\* applyRedaction(PATTERNS[call.pattern], "[REDACTED]", call.type, validator)
\* on the closure state run, the pattern's lastIndex being li; also yields
\* the lastIndex the pattern is left with.
applyRedaction(run, call, li) ==
  LET s == run.redactedText.head
      loop == ExecLoop(PATTERNS[call.pattern], s, LastIndexOnReplace(li))
      sub == Substitute(s, loop.matches, 1, 0, call.validator)
  IN  [totalRedactions |-> run.totalRedactions + sub.count,
       redactedText |-> Str(sub.text, run.redactedText.pad),
       redactionMap |->
         [t \in DOMAIN run.redactionMap \cup {call.type} |->
            IF t = call.type THEN MapGet(run.redactionMap, t) + sub.count
            ELSE run.redactionMap[t]],
       lastIndex |-> loop.lastIndex]

\* lines 111-161 on a text that passed the guards, each pattern starting with
\* lastIndex 0: runs holds the closure state before the first call and after
\* each call made so far; the calls not yet made are added
RECURSIVE RunCalls(_)
RunCalls(runs) ==
  IF Len(runs) > Len(Calls) THEN runs
  ELSE LET res == applyRedaction(runs[Len(runs)], Calls[Len(runs)], 0)
       IN  RunCalls(Append(runs, [redactedText |-> res.redactedText,
                                  totalRedactions |-> res.totalRedactions,
                                  redactionMap |-> res.redactionMap]))

\* the closure state when the five calls have returned
Redact(text) ==
  LET runs == RunCalls(<<NewRun(text)>>)
  IN  runs[Len(runs)]

\* ---------------------------------------------------------------------------
\* Request bodies
\* ---------------------------------------------------------------------------
\* the longest text built from fragments has MaxFrags fragments
MaxFrags == 2

\* the number of requests of SpecConcurrent
NumRequests == 2

\* fragments: short instances of each detector's shapes, and glue
\* 10.0.0.1
QuadOk == <<"1", "0", ".", "0", ".", "0", ".", "1">>
\* 010.0.0.1
QuadZero == <<"0", "1", "0", ".", "0", ".", "0", ".", "1">>
\* a@b.io
MailOk == <<"a", "@", "b", ".", "i", "o">>
\* a..b@c.io
MailDots == <<"a", ".", ".", "b", "@", "c", ".", "i", "o">>
\* 123-45-6789
SsnOk == <<"1", "2", "3", "-", "4", "5", "-", "6", "7", "8", "9">>
\* 000-12-3456
SsnArea0 == <<"0", "0", "0", "-", "1", "2", "-", "3", "4", "5", "6">>
\* 555-019-2834
Phone == <<"5", "5", "5", "-", "0", "1", "9", "-", "2", "8", "3", "4">>
\* 012345
Six == <<"0", "1", "2", "3", "4", "5">>
\* 378282246310005
Card15 == <<"3", "7", "8", "2", "8", "2", "2", "4", "6", "3", "1", "0", "0", "0", "5">>
\* (space)
Space == <<" ">>
\* -
Dash == <<"-">>
\* a-
LetterDash == <<"a", "-">>
\* [REDACTED]
Masked == <<"[", "R", "E", "D", "A", "C", "T", "E", "D", "]">>

Frags ==
  {QuadOk, QuadZero, MailOk, MailDots, SsnOk, SsnArea0, Phone,
   Six, Card15, Space, Dash, LetterDash, Masked}

\* the texts of the documented examples and of test/patterns.test.js
\* 4231 9001 6469 0061
TLuhnValid ==
  <<"4", "2", "3", "1", " ", "9", "0", "0", "1", " ", "6", "4", "6", "9", " ", "0", "0", "6", "1">>
\* 4532 0151 1283 0360
TLuhnInvalid ==
  <<"4", "5", "3", "2", " ", "0", "1", "5", "1", " ", "1", "2", "8", "3", " ", "0", "3", "6", "0">>
\* My SSN is 123-45-6789.
TSsn ==
  <<"M", "y", " ", "S", "S", "N", " ", "i", "s", " ", "1", "2", "3", "-", "4", "5", "-", "6", "7", "8", "9", ".">>
\* Call me at 555-019-2834.
TPhone ==
  <<"C", "a", "l", "l", " ", "m", "e", " ", "a", "t", " ", "5", "5", "5", "-", "0", "1", "9", "-", "2", "8", "3", "4", ".">>
\* 000-00-0000
TSsnReserved ==
  <<"0", "0", "0", "-", "0", "0", "-", "0", "0", "0", "0">>
\* 666-12-3456
TSsn666 ==
  <<"6", "6", "6", "-", "1", "2", "-", "3", "4", "5", "6">>
\* 123-45-0000
TSsnSerial0 ==
  <<"1", "2", "3", "-", "4", "5", "-", "0", "0", "0", "0">>
\* a-000-12-3456
TSsnDashed ==
  <<"a", "-", "0", "0", "0", "-", "1", "2", "-", "3", "4", "5", "6">>
\* 192.168.1.1
TIpOne ==
  <<"1", "9", "2", ".", "1", "6", "8", ".", "1", ".", "1">>
\* 999.999.999.999
TIpBig ==
  <<"9", "9", "9", ".", "9", "9", "9", ".", "9", "9", "9", ".", "9", "9", "9">>
\* 010.001.000.001
TIpZeros ==
  <<"0", "1", "0", ".", "0", "0", "1", ".", "0", "0", "0", ".", "0", "0", "1">>
\* 10.0.0.1 and 172.16.0.1
TIpTwo ==
  <<"1", "0", ".", "0", ".", "0", ".", "1", " ", "a", "n", "d", " ", "1", "7", "2", ".", "1", "6", ".", "0", ".", "1">>
\* user@example.com
TMailOk ==
  <<"u", "s", "e", "r", "@", "e", "x", "a", "m", "p", "l", "e", ".", "c", "o", "m">>
\* john.doe+tag@company.co.uk
TMailTag ==
  <<"j", "o", "h", "n", ".", "d", "o", "e", "+", "t", "a", "g", "@", "c", "o", "m", "p", "a", "n", "y", ".", "c", "o", ".", "u", "k">>
\* user..name@domain.com
TMailDots ==
  <<"u", "s", "e", "r", ".", ".", "n", "a", "m", "e", "@", "d", "o", "m", "a", "i", "n", ".", "c", "o", "m">>
\* Card 4532-1234-5678-9010
TCardTest ==
  <<"C", "a", "r", "d", " ", "4", "5", "3", "2", "-", "1", "2", "3", "4", "-", "5", "6", "7", "8", "-", "9", "0", "1", "0">>
\* Order number 1234567890123 is different
TOrder ==
  <<"O", "r", "d", "e", "r", " ", "n", "u", "m", "b", "e", "r", " ", "1", "2", "3", "4", "5", "6", "7", "8", "9", "0", "1", "2", "3", " ", "i", "s", " ", "d", "i", "f", "f", "e", "r", "e", "n", "t">>
\* Phone num (555) 123-4567
TPhoneParen ==
  <<"P", "h", "o", "n", "e", " ", "n", "u", "m", " ", "(", "5", "5", "5", ")", " ", "1", "2", "3", "-", "4", "5", "6", "7">>
\* 555-123-4567 and +1-555-123-4567
TPhoneTwo ==
  <<"5", "5", "5", "-", "1", "2", "3", "-", "4", "5", "6", "7", " ", "a", "n", "d", " ", "+", "1", "-", "5", "5", "5", "-", "1", "2", "3", "-", "4", "5", "6", "7">>
\* 123-45-6789 012345
TSsnThenDigits ==
  <<"1", "2", "3", "-", "4", "5", "-", "6", "7", "8", "9", " ", "0", "1", "2", "3", "4", "5">>
\* a@b.io 10.0.0.1 123-45-6789
TMixed ==
  <<"a", "@", "b", ".", "i", "o", " ", "1", "0", ".", "0", ".", "0", ".", "1", " ", "1", "2", "3", "-", "4", "5", "-", "6", "7", "8", "9">>
\* 900-12-3456
TSsn900 ==
  <<"9", "0", "0", "-", "1", "2", "-", "3", "4", "5", "6">>
\* 123-00-4567
TSsnGroup0 ==
  <<"1", "2", "3", "-", "0", "0", "-", "4", "5", "6", "7">>
\* 256.1.1.1 10.0.0.1
TIpBigThenOk ==
  <<"2", "5", "6", ".", "1", ".", "1", ".", "1", " ", "1", "0", ".", "0", ".", "0", ".", "1">>
\* a@b.io 378282246310005
TCardMixed ==
  <<"a", "@", "b", ".", "i", "o", " ", "3", "7", "8", "2", "8", "2", "2", "4", "6", "3", "1", "0", "0", "0", "5">>

Examples ==
  {TLuhnValid, TLuhnInvalid, TSsn, TPhone, TSsnReserved,
   TSsn666, TSsnSerial0, TSsnDashed, TIpOne, TIpBig,
   TIpZeros, TIpTwo, TMailOk, TMailTag, TMailDots,
   TCardTest, TOrder, TPhoneParen, TPhoneTwo, TSsnThenDigits,
   TMixed, TCardMixed, TSsn900, TSsnGroup0, TIpBigThenOk}

RECURSIVE Concat(_)
Concat(fs) == IF fs = <<>> THEN <<>> ELSE Head(fs) \o Concat(Tail(fs))

\* every concatenation of 0 .. MaxFrags fragments
FragTexts ==
  UNION {{Concat(fs) : fs \in [1..n -> Frags]} : n \in 0..MaxFrags}

Texts == Examples \cup FragTexts

\* strings at and just beyond MAX_INPUT_LENGTH: filler only, and a match
\* followed by filler
LongStrings ==
  { Str(h, n - Len(h)) :
      h \in {<<>>, TIpOne}, n \in {MAX_INPUT_LENGTH, MAX_INPUT_LENGTH + 1} }

TextValues ==
  {Undefined, Num(0), Num(42), Arr}
    \cup {Str(h, 0) : h \in Texts} \cup LongStrings

Bodies == {Malformed, JsonNull} \cup {Obj(v) : v \in TextValues}

\* the bodies the concurrent requests draw from
SharedBodies ==
  {Malformed, JsonNull, Obj(Undefined), Obj(Str(TMixed, 0)),
   Obj(Str(TSsnThenDigits, 0)), Obj(Str(<<>>, MAX_INPUT_LENGTH + 1))}

\* ---------------------------------------------------------------------------
\* The handler as a state machine
\* ---------------------------------------------------------------------------
VARIABLES
  req,        \* per request: where its handler invocation is, and its locals
  lastIndex,  \* the lastIndex property of each regular expression of PATTERNS
  running     \* the request whose handler is running synchronously, or 0

vars == <<req, lastIndex, running>>

NoResponse == [status |-> 0]

\* a request that has not reached the handler yet
NewRequest(b) ==
  [pc |-> "new", body |-> b, text |-> Undefined, run |-> NewRun(Undefined),
   step |-> 0, response |-> NoResponse]

InitWith(ids, bodies) ==
  /\ req \in [ids -> {NewRequest(b) : b \in bodies}]
  /\ lastIndex = [p \in PatternNames |-> 0]
  /\ running = 0

Init == InitWith({1}, Bodies)

InitConcurrent == InitWith(1..NumRequests, SharedBodies)

Finish(r, resp) ==
  req' = [req EXCEPT ![r].pc = "done", ![r].response = resp]

\* line 60-67: the handler is entered and suspends at await c.req.json()
Enter(r) ==
  /\ running = 0
  /\ req[r].pc = "new"
  /\ req' = [req EXCEPT ![r].pc = "json"]
  /\ UNCHANGED <<lastIndex, running>>

\* lines 68-77: c.req.json() rejected
InvalidBody(r) ==
  /\ running = 0
  /\ req[r].pc = "json"
  /\ req[r].body.json = "malformed"
  /\ Finish(r, [status |-> 400, success |-> FALSE,
                error |-> "Invalid or missing JSON body",
                code |-> "INVALID_BODY"])
  /\ UNCHANGED <<lastIndex, running>>

\* line 80: const { text } = body throws a TypeError when body is null; the
\* handler catches nothing here, so the framework answers 500
DestructureThrows(r) ==
  /\ running = 0
  /\ req[r].pc = "json"
  /\ req[r].body.json = "null"
  /\ Finish(r, [status |-> 500, thrown |-> "TypeError"])
  /\ UNCHANGED <<lastIndex, running>>

\* lines 80-91
InvalidInput(r) ==
  /\ running = 0
  /\ req[r].pc = "json"
  /\ req[r].body.json = "object"
  /\ LET text == req[r].body.text
     IN  /\ Falsy(text) \/ text.type # "string"
         /\ req' = [req EXCEPT
                      ![r].pc = "done",
                      ![r].text = text,
                      ![r].response =
                        [status |-> 400, success |-> FALSE,
                         error |-> "Missing or invalid 'text'. Expected a non-empty string.",
                         code |-> "INVALID_INPUT"]]
  /\ UNCHANGED <<lastIndex, running>>

\* lines 93-105
InputTooLarge(r) ==
  /\ running = 0
  /\ req[r].pc = "json"
  /\ req[r].body.json = "object"
  /\ LET text == req[r].body.text
     IN  /\ ~(Falsy(text) \/ text.type # "string")
         /\ Length(text) > MAX_INPUT_LENGTH
         /\ req' = [req EXCEPT
                      ![r].pc = "done",
                      ![r].text = text,
                      ![r].response =
                        [status |-> 413, success |-> FALSE,
                         error |-> "Input exceeds maximum length",
                         code |-> "INPUT_TOO_LARGE",
                         max_length |-> MAX_INPUT_LENGTH,
                         received_length |-> Length(text)]]
  /\ UNCHANGED <<lastIndex, running>>

\* lines 80-112, 151: the guards pass; redactedText, totalRedactions and
\* redactionMap are created.  From here to the return the handler runs
\* without suspending, so no other handler runs in between.
StartPipe(r) ==
  /\ running = 0
  /\ req[r].pc = "json"
  /\ req[r].body.json = "object"
  /\ LET text == req[r].body.text
     IN  /\ ~(Falsy(text) \/ text.type # "string")
         /\ ~(Length(text) > MAX_INPUT_LENGTH)
         /\ req' = [req EXCEPT ![r].pc = "pipe", ![r].text = text,
                               ![r].run = NewRun(text), ![r].step = 0]
  /\ running' = r
  /\ UNCHANGED lastIndex

\* lines 152-161: the next call of applyRedaction
ApplyNext(r) ==
  /\ running = r
  /\ req[r].pc = "pipe"
  /\ req[r].step < Len(Calls)
  /\ LET call == Calls[req[r].step + 1]
         res == applyRedaction(req[r].run, call, lastIndex[call.pattern])
     IN  /\ req' = [req EXCEPT
                      ![r].step = @ + 1,
                      ![r].run = [redactedText |-> res.redactedText,
                                  totalRedactions |-> res.totalRedactions,
                                  redactionMap |-> res.redactionMap]]
         /\ lastIndex' = [lastIndex EXCEPT ![call.pattern] = res.lastIndex]
  /\ UNCHANGED running

\* lines 163-171
Respond(r) ==
  /\ running = r
  /\ req[r].pc = "pipe"
  /\ req[r].step = Len(Calls)
  /\ Finish(r, [status |-> 200, success |-> TRUE,
                result |-> req[r].run.redactedText,
                metadata |->
                  [redactions_count |-> req[r].run.totalRedactions,
                   redactions_by_type |-> req[r].run.redactionMap]])
  /\ running' = 0
  /\ UNCHANGED lastIndex

Next ==
  \/ \E r \in DOMAIN req : Enter(r)
  \/ \E r \in DOMAIN req : InvalidBody(r)
  \/ \E r \in DOMAIN req : DestructureThrows(r)
  \/ \E r \in DOMAIN req : InvalidInput(r)
  \/ \E r \in DOMAIN req : InputTooLarge(r)
  \/ \E r \in DOMAIN req : StartPipe(r)
  \/ \E r \in DOMAIN req : ApplyNext(r)
  \/ \E r \in DOMAIN req : Respond(r)

Spec == Init /\ [][Next]_vars

SpecConcurrent == InitConcurrent /\ [][Next]_vars

\* ---------------------------------------------------------------------------
\* Properties
\* ---------------------------------------------------------------------------
Types == {"ipv4", "email", "ssn_us", "phone_us", "credit_card"}

InPipe(r) == req[r].pc = "pipe"
Succeeded(r) == req[r].pc = "done" /\ req[r].response.status = 200

\* the count of type t that request r has reached
Count(r, t) == MapGet(req[r].run.redactionMap, t)

\* the detectors before call k replaced nothing, so call k scans the input
UntouchedBefore(r, k) ==
  \A j \in 1..(k - 1) : Count(r, Calls[j].type) = 0

\* the number of places where p occurs in s
Occurrences(p, s) ==
  Cardinality({i \in 0..(Len(s) - Len(p)) : Slice(s, i, i + Len(p)) = p})

SumOfValues(map) ==
  MapGet(map, "ipv4") + MapGet(map, "email") + MapGet(map, "ssn_us")
    + MapGet(map, "phone_us") + MapGet(map, "credit_card")

\* ---- C1 -----------------------------------------------------------------
\* the standard Luhn checksum of a match: from the right, every second digit
\* doubled, minus 9 when above 9; valid iff the digit sum is divisible by 10
\* the standard checksum of digits[lo], ..., digits[hi]: every second digit
\* counted from the last one is doubled, and 9 taken off if that exceeds 9
RECURSIVE LuhnSum(_, _, _)
LuhnSum(digits, lo, hi) ==
  IF lo > hi THEN 0
  ELSE IF lo = hi
    THEN LET d == DigitVal(digits[lo])
         IN  IF (Len(digits) - lo) % 2 = 0 THEN d
             ELSE IF 2 * d > 9 THEN 2 * d - 9 ELSE 2 * d
  ELSE LET mid == (lo + hi) \div 2
       IN  LuhnSum(digits, lo, mid) + LuhnSum(digits, mid + 1, hi)

PassesLuhn(match) ==
  LET digits == SelectSeq(match, LAMBDA c : c \in Digit)
  IN  LuhnSum(digits, 1, Len(digits)) % 10 = 0

\* s with exactly the matches that pass the standard checksum replaced
RECURSIVE LuhnGated(_, _, _, _)
LuhnGated(s, matches, k, pos) ==
  IF k > Len(matches) THEN Slice(s, pos, Len(s))
  ELSE LET m == matches[k]
           match == Slice(s, m[1], m[2])
       IN  Slice(s, pos, m[1])
             \o (IF PassesLuhn(match) THEN PLACEHOLDER ELSE match)
             \o LuhnGated(s, matches, k + 1, m[2])

\* C1: Luhn gate.  When the credit_card detector has run on the input text
\* (the earlier detectors replaced nothing), each of its matches is replaced
\* and counted if and only if it passes the standard Luhn checksum, and the
\* other matches are left unchanged; 4231 9001 6469 0061 is redacted.
LuhnGate ==
  \A r \in DOMAIN req :
    (InPipe(r) \/ Succeeded(r)) /\ req[r].step = 5 /\ UntouchedBefore(r, 5) =>
      LET s == req[r].text.head
          ms == ExecLoop(CREDIT_CARD, s, 0).matches
          valid == {k \in 1..Len(ms) : PassesLuhn(Slice(s, ms[k][1], ms[k][2]))}
      IN  /\ Count(r, "credit_card") = Cardinality(valid)
          /\ req[r].run.totalRedactions = Cardinality(valid)
          /\ req[r].run.redactedText.head = LuhnGated(s, ms, 1, 0)

\* ---- C2 -----------------------------------------------------------------
CountState ==
  \A r \in DOMAIN req :
    InPipe(r) \/ Succeeded(r) =>
      /\ DOMAIN req[r].run.redactionMap \subseteq Types
      /\ req[r].run.totalRedactions = SumOfValues(req[r].run.redactionMap)
      /\ req[r].run.totalRedactions =
           Occurrences(PLACEHOLDER, req[r].run.redactedText.head)
             - Occurrences(PLACEHOLDER, req[r].text.head)
      /\ Succeeded(r) =>
           /\ req[r].response.metadata.redactions_count =
                SumOfValues(req[r].response.metadata.redactions_by_type)
           /\ req[r].response.metadata.redactions_by_type =
                req[r].run.redactionMap
           /\ req[r].response.result = req[r].run.redactedText

\* a detector step adds to its own type, and to no other, the number of
\* placeholders it put into the working text
CountStep ==
  \A r \in DOMAIN req :
    InPipe(r) /\ req'[r].step = req[r].step + 1 =>
      LET type == Calls[req'[r].step].type
      IN  \A t \in Types :
            MapGet(req'[r].run.redactionMap, t) - Count(r, t) =
              IF t = type
                THEN Occurrences(PLACEHOLDER, req'[r].run.redactedText.head)
                       - Occurrences(PLACEHOLDER, req[r].run.redactedText.head)
                ELSE 0

\* C2: Count consistency.  After each detector step and in the response,
\* redactions_count is the sum of the values of redactions_by_type, and each
\* per-type value is the number of matches of that detector that were
\* replaced by the placeholder.
CountConsistency == []CountState /\ [][CountStep]_vars

\* a response that counts replacements of at least two types
CountConsistencyWitness ==
  \E r \in DOMAIN req :
    /\ Succeeded(r)
    /\ req[r].response.metadata.redactions_count >= 2
    /\ Cardinality({t \in Types : Count(r, t) > 0}) >= 2

\* ---- C3 -----------------------------------------------------------------
CallOrder == <<"ipv4", "email", "ssn_us", "phone_us", "credit_card">>

\* C3: Priority ordering.  The detectors run in the order ipv4, email,
\* ssn_us, phone_us, credit_card, each on the text the previous one left:
\* after k steps exactly the first k types are counted; "My SSN is
\* 123-45-6789." counts ssn_us 1 and credit_card 0, "Call me at
\* 555-019-2834." counts phone_us 1 and credit_card 0, and an SSN followed
\* by six more digits is taken by ssn_us, not by credit_card.
PriorityOrdering ==
  \A r \in DOMAIN req :
    InPipe(r) \/ Succeeded(r) =>
      /\ DOMAIN req[r].run.redactionMap =
           {CallOrder[k] : k \in 1..req[r].step}
      /\ Succeeded(r) /\ req[r].text.head = TSsn =>
           /\ Count(r, "ssn_us") = 1 /\ Count(r, "credit_card") = 0
           /\ req[r].response.metadata.redactions_count = 1
           /\ req[r].response.result.head =
                Slice(TSsn, 0, 10) \o PLACEHOLDER \o <<".">>
      /\ Succeeded(r) /\ req[r].text.head = TPhone =>
           /\ Count(r, "phone_us") = 1 /\ Count(r, "credit_card") = 0
           /\ req[r].response.metadata.redactions_count = 1
           /\ req[r].response.result.head =
                Slice(TPhone, 0, 11) \o PLACEHOLDER \o <<".">>
      /\ Succeeded(r) /\ req[r].text.head = TSsnThenDigits =>
           /\ Count(r, "ssn_us") = 1 /\ Count(r, "credit_card") = 0
           /\ req[r].response.result.head =
                PLACEHOLDER \o Slice(TSsnThenDigits, 11, 18)

PriorityOrderingWitness ==
  \E r \in DOMAIN req :
    /\ Succeeded(r)
    /\ req[r].text.head = TSsn
    /\ req[r].response.metadata.redactions_by_type["ssn_us"] = 1

\* ---- C4 -----------------------------------------------------------------
\* s[i+1 .. i+11] is AAA-GG-SSSS between word boundaries, with a reserved
\* area, group or serial
ReservedSsnAt(s, i) ==
  /\ i + 11 <= Len(s)
  /\ \A k \in 1..11 :
       IF k \in {4, 7} THEN s[i + k] = "-" ELSE s[i + k] \in Digit
  /\ IsWordBoundary(s, i)
  /\ IsWordBoundary(s, i + 11)
  /\ \/ Slice(s, i, i + 3) \in {<<"0", "0", "0">>, <<"6", "6", "6">>}
     \/ s[i + 1] = "9"
     \/ Slice(s, i + 4, i + 6) = <<"0", "0">>
     \/ Slice(s, i + 7, i + 11) = <<"0", "0", "0", "0">>

ReservedSsns(s) == Cardinality({i \in 0..Len(s) : ReservedSsnAt(s, i)})

\* C4: SSN reserved ranges.  When the ssn_us detector has run on the input
\* text, every reserved AAA-GG-SSSS in it is still there; 123-45-6789 is
\* replaced and counted once.
SsnReservedRanges ==
  \A r \in DOMAIN req :
    /\ InPipe(r) /\ req[r].step = 3 /\ UntouchedBefore(r, 3) =>
         /\ ReservedSsns(req[r].run.redactedText.head) >=
              ReservedSsns(req[r].text.head)
         /\ (\A i \in 0..Len(req[r].text.head) :
               ReservedSsnAt(req[r].text.head, i) \/ i = Len(req[r].text.head))
              => Count(r, "ssn_us") = 0
    /\ InPipe(r) /\ req[r].step = 3 /\ req[r].text.head = SsnOk =>
         /\ Count(r, "ssn_us") = 1
         /\ req[r].run.redactedText.head = PLACEHOLDER

\* ---- C5 -----------------------------------------------------------------
\* C5: Idempotence.  Running the pipeline on the masked text of a response
\* returns that text unchanged, with redactions_count 0 and every per-type
\* count 0.
Idempotence ==
  \A r \in DOMAIN req :
    Succeeded(r) =>
      LET again == Redact(req[r].response.result)
      IN  /\ again.redactedText = req[r].response.result
          /\ again.totalRedactions = 0
          /\ \A t \in Types : MapGet(again.redactionMap, t) = 0

\* a response with replacements by two detectors, one of them credit_card,
\* whose masked text the pipeline leaves as it is
IdempotenceWitness ==
  \E r \in DOMAIN req :
    /\ Succeeded(r)
    /\ req[r].response.metadata.redactions_count >= 2
    /\ Count(r, "credit_card") >= 1
    /\ Redact(req[r].response.result).totalRedactions = 0

\* ---- C6 -----------------------------------------------------------------
\* the offset where the run of digits that starts at offset i ends
DigitRunEnd(s, i) ==
  CHOOSE e \in i..Len(s) :
    /\ \A j \in (i + 1)..e : s[j] \in Digit
    /\ e = Len(s) \/ s[e + 1] \notin Digit

\* the decimal value of the digits s[a+1 .. b]
RECURSIVE Decimal(_, _, _)
Decimal(s, a, b) ==
  IF b <= a THEN 0 ELSE 10 * Decimal(s, a, b - 1) + DigitVal(s[b])

\* s[a+1 .. b] is a component: 1 to 3 digits of value 0..255, and, when
\* strict, without a leading zero
Component(s, a, b, strict) ==
  /\ b - a \in 1..3
  /\ Decimal(s, a, b) <= 255
  /\ strict => (b - a = 1 \/ s[a + 1] # "0")

\* the end of the dotted quad between word boundaries that starts at offset
\* i, or -1 if there is none
QuadEnd(s, i, strict) ==
  LET e1 == DigitRunEnd(s, i)
      e2 == DigitRunEnd(s, e1 + 1)
      e3 == DigitRunEnd(s, e2 + 1)
      e4 == DigitRunEnd(s, e3 + 1)
  IN  IF /\ IsWordBoundary(s, i)
         /\ Component(s, i, e1, strict)
         /\ e1 < Len(s) /\ s[e1 + 1] = "."
         /\ Component(s, e1 + 1, e2, strict)
         /\ e2 < Len(s) /\ s[e2 + 1] = "."
         /\ Component(s, e2 + 1, e3, strict)
         /\ e3 < Len(s) /\ s[e3 + 1] = "."
         /\ Component(s, e3 + 1, e4, strict)
         /\ IsWordBoundary(s, e4)
       THEN e4 ELSE -1

\* the number of dotted quads of s from offset i on, taken left to right
\* and not overlapping
RECURSIVE Quads(_, _, _)
Quads(s, i, strict) ==
  LET starts == {a \in i..Len(s) : QuadEnd(s, a, strict) > a}
  IN  IF starts = {} THEN 0
      ELSE LET a == CHOOSE x \in starts : \A y \in starts : x <= y
           IN  1 + Quads(s, QuadEnd(s, a, strict), strict)

Ipv4Counts(strict) ==
  \A r \in DOMAIN req :
    (InPipe(r) \/ Succeeded(r)) /\ req[r].step >= 1 =>
      /\ Count(r, "ipv4") = Quads(req[r].text.head, 0, strict)
      /\ req[r].text.head = TIpBig => Count(r, "ipv4") = 0
      /\ req[r].text.head = TIpOne => Count(r, "ipv4") = 1
      /\ req[r].text.head = TIpTwo => Count(r, "ipv4") = 2

\* C6 as stated: IPv4 bounds.  The ipv4 detector matches exactly the dotted
\* quads between word boundaries whose four components are each a value in
\* 0..255 written without leading zeros; 999.999.999.999 and
\* 010.001.000.001 give no match, 192.168.1.1 one, "10.0.0.1 and
\* 172.16.0.1" two.
Ipv4NoLeadingZeros ==
  /\ Ipv4Counts(TRUE)
  /\ \A r \in DOMAIN req :
       InPipe(r) /\ req[r].step >= 1 /\ req[r].text.head = TIpZeros =>
         Count(r, "ipv4") = 0

\* C6 amended: IPv4 bounds.  The ipv4 detector matches exactly the dotted
\* quads between word boundaries whose four components are each 1 to 3
\* digits of value 0..255, leading zeros allowed: 999.999.999.999 gives no
\* match, 010.001.000.001 and 192.168.1.1 one, "10.0.0.1 and 172.16.0.1"
\* two.
Ipv4Bounds ==
  /\ Ipv4Counts(FALSE)
  /\ \A r \in DOMAIN req :
       InPipe(r) /\ req[r].step >= 1 /\ req[r].text.head = TIpZeros =>
         /\ Count(r, "ipv4") = 1
         /\ req[r].step = 1 => req[r].run.redactedText.head = PLACEHOLDER

\* the ipv4 detector has run on a quad with a component above 255 and on
\* one with leading zeros
Ipv4BoundsWitness ==
  \E r \in DOMAIN req :
    /\ InPipe(r) /\ req[r].step = 1
    /\ req[r].text.head \in {TIpBig, TIpZeros, TIpBigThenOk}

\* ---- C7 -----------------------------------------------------------------
\* the text property the handler reads from a parsed body
TextOf(b) == IF b.json = "object" THEN b.text ELSE Undefined

HasCode(resp, code) == "code" \in DOMAIN resp /\ resp.code = code

\* C7: Boundary guards.  For every request whose body parses: a text that is
\* missing, not a string or empty yields INVALID_INPUT; a text of length 1
\* to MAX_INPUT_LENGTH is redacted; a longer text yields INPUT_TOO_LARGE
\* with max_length and the exact received_length; an error response comes
\* before any detector has been applied.
BoundaryGuards ==
  \A r \in DOMAIN req :
    req[r].pc = "done" /\ req[r].body.json # "malformed" =>
      LET text == TextOf(req[r].body)
          resp == req[r].response
      IN  /\ text.type # "string" \/ Length(text) = 0 =>
               HasCode(resp, "INVALID_INPUT")
          /\ text.type = "string" /\ Length(text) \in 1..MAX_INPUT_LENGTH =>
               /\ resp.status = 200
               /\ resp.result = Redact(text).redactedText
          /\ text.type = "string" /\ Length(text) > MAX_INPUT_LENGTH =>
               /\ HasCode(resp, "INPUT_TOO_LARGE")
               /\ resp.max_length = MAX_INPUT_LENGTH
               /\ resp.received_length = Length(text)
          /\ resp.status # 200 =>
               /\ req[r].step = 0
               /\ DOMAIN req[r].run.redactionMap = {}

\* ---- C8 -----------------------------------------------------------------
\* C8: Length consistency.  Every successful response carries in its
\* metadata original_length, the length of the input text, and
\* redacted_length, the length of the returned masked text.
LengthConsistency ==
  \A r \in DOMAIN req :
    Succeeded(r) =>
      LET metadata == req[r].response.metadata
      IN  /\ {"original_length", "redacted_length"} \subseteq DOMAIN metadata
          /\ metadata.original_length = Length(req[r].text)
          /\ metadata.redacted_length = Length(req[r].response.result)

\* ---- C9 -----------------------------------------------------------------
\* C9: Determinism and no cross-request state.  Requests with equal bodies
\* get equal responses whatever was processed before or in between; a
\* handler that starts its pipeline starts from its own text with no counts;
\* whenever no handler is running, every pattern's lastIndex is 0.
NoCrossRequestState ==
  /\ \A r1, r2 \in DOMAIN req :
       /\ req[r1].pc = "done" /\ req[r2].pc = "done"
       /\ req[r1].body = req[r2].body
       => req[r1].response = req[r2].response
  /\ \A r \in DOMAIN req :
       InPipe(r) /\ req[r].step = 0 =>
         /\ req[r].run.redactedText = req[r].body.text
         /\ req[r].run.totalRedactions = 0
         /\ DOMAIN req[r].run.redactionMap = {}
  /\ running = 0 => \A p \in PatternNames : lastIndex[p] = 0

\* two requests with the same text, in which several matches were replaced,
\* have both been answered
NoCrossRequestStateWitness ==
  \E r1, r2 \in DOMAIN req :
    /\ r1 # r2
    /\ Succeeded(r1) /\ Succeeded(r2)
    /\ req[r1].body = req[r2].body
    /\ req[r1].response.metadata.redactions_count >= 2

\* ---- C10 ----------------------------------------------------------------
LocalChar == Alnum \cup {".", "_", "%", "+", "-"}

\* s is address-shaped, local@domain, and its local part has two dots in a
\* row
DoubleDotAddress(s) ==
  \E at \in 1..Len(s) :
    /\ s[at] = "@"
    /\ \A i \in 1..(at - 1) : s[i] \in LocalChar
    /\ \A i \in (at + 1)..Len(s) : s[i] \in Alnum \cup {".", "-"}
    /\ \E i \in 1..(at - 2) : s[i] = "." /\ s[i + 1] = "."

\* C10: Email detection as the tests assert it.  An address whose local part
\* contains two consecutive dots gives no email match and is neither
\* replaced nor counted; user@example.com and john.doe+tag@company.co.uk
\* give one match covering the whole address.
EmailAsTested ==
  \A r \in DOMAIN req :
    InPipe(r) /\ req[r].step = 2 =>
      /\ DoubleDotAddress(req[r].text.head) =>
           /\ Count(r, "email") = 0
           /\ req[r].run.redactedText = req[r].text
      /\ req[r].text.head \in {TMailOk, TMailTag} =>
           /\ Count(r, "email") = 1
           /\ req[r].run.redactedText.head = PLACEHOLDER

====
